---- MODULE Spec2Model ----
(***************************************************************************)
(* Virtual Pet Simulator (src/SEP.py): the Pet entity, its four gameplay   *)
(* actions and the tick procedure, as a state machine.                     *)
(*                                                                         *)
(* Spec      one Pet driven through its public methods in any order. The   *)
(*           tick loop is followed statement by statement: pc is the       *)
(*           position inside the loop body, each random draw is one step.  *)
(* SpecHour  one tick hour as a function of the pet state and the injected *)
(*           draws: the hour starts from a pet state drawn from            *)
(*           HourInputs, and the draws of the hour are recorded in dr.     *)
(* The later sections add the PetManager and the menu loop of main, and    *)
(* the specifications that drive them.                                     *)
(***************************************************************************)
EXTENDS Integers, Sequences, FiniteSets, TLC

VARIABLES
    hunger,      \* Pet.hunger
    happiness,   \* Pet.happiness
    age_hours,   \* Pet.age_hours
    alive,       \* Pet.alive
    pc,          \* "idle": no call in progress; inside Pet.tick: "tick" (head
                 \* of the loop), "happy", "event", "check" (see TickHunger ...)
    hours,       \* argument of the tick call in progress (0 when idle)
    i,           \* iterations of the tick loop completed in this call
    age0,        \* age_hours at entry of the tick call in progress
    signal,      \* game-over line printed by the call: "none", "hungry", "sad"
    raised,      \* exception the last call ended with ("none": it returned)
    dr,          \* SpecHour: the draws injected into the recorded hour
    pre,         \* SpecHour: the pet state the recorded hour started from
    pets,        \* PetManager.pets: the fields of every Pet, in list order
    active_index,\* PetManager.active_index (None, or a 0-based index)
    mpc,         \* position in main: "none" (main is not running), "start",
                 \* "menu" (at the prompt), "run" (in a handler), "quit"
    req          \* the menu choice being handled (see NoReq)

vars == <<hunger, happiness, age_hours, alive, pc, hours, i, age0, signal, raised,
         dr, pre, pets, active_index, mpc, req>>
mvars == <<pets, active_index, mpc, req>>
pet == <<hunger, happiness, age_hours, alive>>

----------------------------------------------------------------------------
(* Bounds of the model *)

MaxHours == 3          \* largest hours argument given to tick
MaxAge == 4            \* tick is not called once it could push age_hours past this

----------------------------------------------------------------------------
(* Program constants *)

MIN_LEVEL == 0
MAX_LEVEL == 100

BASE_HUNGER_INCREASE == <<3, 7>>
BASE_HAPPINESS_DECREASE == <<2, 5>>

RANDOM_EVENTS ==
    << [name |-> "Found a snack", hunger_delta |-> -10, happiness_delta |-> 0],
       [name |-> "Found a toy",   hunger_delta |-> 0,   happiness_delta |-> 10],
       [name |-> "Got sick",      hunger_delta |-> 15,  happiness_delta |-> -10],
       [name |-> "Took a nap",    hunger_delta |-> -5,  happiness_delta |-> 5] >>

Max(a, b) == IF a >= b THEN a ELSE b
Min(a, b) == IF a <= b THEN a ELSE b

\* mutant of clamp: the lower bound is forgotten
clampNoFloor(value, low, high) == Min(high, value)

clamp(value, low, high) == Max(low, Min(high, value))

\* clamp with its default bounds, as every call site uses it
Level(value) == clamp(value, MIN_LEVEL, MAX_LEVEL)

----------------------------------------------------------------------------
(* The randomness of one tick hour: random.randint for the two base        *)
(* adjustments, random.random() < EVENT_PROBABILITY and random.choice for  *)
(* the event (ev = 0: no event, ev = k: RANDOM_EVENTS[k]).                 *)

NoEvent == 0
NoDraw == [r1 |-> 0, r2 |-> 0, ev |-> NoEvent]
NoPre == [hunger |-> -1, happiness |-> -1, alive |-> FALSE]

\* PetManager.active_index before any pet exists
None == -1

\* An input line that is parsed with int(): empty, a text that is no number,
\* or a number.
EmptyLine == [kind |-> "empty", val |-> 0]
TextLine == [kind |-> "text", val |-> 0]
IntLine(k) == [kind |-> "int", val |-> k]

\* no menu choice is being handled: choice is the stripped input line, line
\* the line typed as the hour count of "advance time", n the clamped hour
\* count, left the tick(1) calls still to make, age the age_hours of the pet
\* when the choice was read
NoReq == [choice |-> "", line |-> EmptyLine, n |-> 0, left |-> 0, age |-> 0]

\* main is not running: no manager, no menu
NoMenu ==
    /\ pets = <<>>
    /\ active_index = None
    /\ mpc = "none"
    /\ req = NoReq

----------------------------------------------------------------------------
(* Pet.__init__ *)

Init ==
    /\ hunger = 50
    /\ happiness = 50
    /\ age_hours = 0
    /\ alive = TRUE
    /\ pc = "idle"
    /\ hours = 0
    /\ i = 0
    /\ age0 = 0
    /\ signal = "none"
    /\ raised = "none"
    /\ dr = NoDraw
    /\ pre = NoPre
    /\ NoMenu

----------------------------------------------------------------------------
(* Gameplay actions: none of them looks at alive. *)

\* mutant of Feed: feeding a pet that is no longer starving brings it back
FeedRevives ==
    /\ pc = "idle"
    /\ hunger' = Level(hunger - 15)
    /\ happiness' = Level(happiness - 2)
    /\ alive' = (alive \/ hunger' < MAX_LEVEL)
    /\ signal' = "none"
    /\ UNCHANGED <<age_hours, pc, hours, i, age0, raised, dr, pre>>

\* mutant of Feed: hunger is not clamped
FeedUnclamped ==
    /\ pc = "idle"
    /\ hunger' = hunger - 15
    /\ happiness' = Level(happiness - 2)
    /\ signal' = "none"
    /\ UNCHANGED <<age_hours, alive, pc, hours, i, age0, raised, dr, pre>>

Feed ==
    /\ pc = "idle"
    /\ hunger' = Level(hunger - 15)
    /\ happiness' = Level(happiness - 2)
    /\ signal' = "none"
    /\ UNCHANGED <<age_hours, alive, pc, hours, i, age0, raised, dr, pre>>

\* mutant of Play: the two deltas are swapped
PlaySwapped ==
    /\ pc = "idle"
    /\ happiness' = Level(happiness + 6)
    /\ hunger' = Level(hunger + 12)
    /\ signal' = "none"
    /\ UNCHANGED <<age_hours, alive, pc, hours, i, age0, raised, dr, pre>>

Play ==
    /\ pc = "idle"
    /\ happiness' = Level(happiness + 12)
    /\ hunger' = Level(hunger + 6)
    /\ signal' = "none"
    /\ UNCHANGED <<age_hours, alive, pc, hours, i, age0, raised, dr, pre>>

GiveToy ==
    /\ pc = "idle"
    /\ happiness' = Level(happiness + 8)
    /\ hunger' = Level(hunger + 2)
    /\ signal' = "none"
    /\ UNCHANGED <<age_hours, alive, pc, hours, i, age0, raised, dr, pre>>

GiveMedicine ==
    /\ pc = "idle"
    /\ hunger' = Level(hunger - 8)
    /\ happiness' = Level(happiness + 3)
    /\ signal' = "none"
    /\ UNCHANGED <<age_hours, alive, pc, hours, i, age0, raised, dr, pre>>

----------------------------------------------------------------------------
(* Pet.tick: the statements of the loop body, as operators *)

\* mutant of BaseHunger: a draw below 5 is dropped
BaseHungerFrom5(h, r1) == Level(h + (IF r1 < 5 THEN 0 ELSE r1))

\* mutant of BaseHunger: the sum is not clamped
BaseHungerNoClamp(h, r1) == h + r1

\* self.hunger = clamp(self.hunger + random.randint(*BASE_HUNGER_INCREASE))
BaseHunger(h, r1) == Level(h + r1)

\* mutant of BaseHappiness: the draw is added instead of subtracted
BaseHappinessAdded(hp, r2) == Level(hp + r2)

\* self.happiness = clamp(self.happiness - random.randint(*BASE_HAPPINESS_DECREASE))
BaseHappiness(hp, r2) == Level(hp - r2)

\* mutant of EventHunger: the sum is not clamped
EventHungerNoClamp(h, ev) ==
    IF ev = NoEvent THEN h ELSE h + RANDOM_EVENTS[ev].hunger_delta

\* the random event, when one is triggered: its hunger delta, clamped
EventHunger(h, ev) ==
    IF ev = NoEvent THEN h ELSE Level(h + RANDOM_EVENTS[ev].hunger_delta)

\* the random event, when one is triggered: its happiness delta, clamped
EventHappiness(hp, ev) ==
    IF ev = NoEvent THEN hp ELSE Level(hp + RANDOM_EVENTS[ev].happiness_delta)

\* mutant of HungryPenalty: the penalty already applies at hunger 80
HungryPenaltyFrom80(h, hp) == IF h >= 80 THEN Level(hp - 5) ELSE hp

\* the extra fall of happiness when the pet is too hungry
HungryPenalty(h, hp) == IF h > 80 THEN Level(hp - 5) ELSE hp

\* mutant of GameOver: hunger must exceed MAX_LEVEL
GameOverAboveMax(h, hp) ==
    IF h > MAX_LEVEL THEN "hungry"
    ELSE IF hp <= MIN_LEVEL THEN "sad"
    ELSE "none"

\* mutant of GameOver: happiness must fall below MIN_LEVEL
GameOverBelowMin(h, hp) ==
    IF h >= MAX_LEVEL THEN "hungry"
    ELSE IF hp < MIN_LEVEL THEN "sad"
    ELSE "none"

\* the game-over checks: the line that is printed, "none" when the pet lives on
GameOver(h, hp) ==
    IF h >= MAX_LEVEL THEN "hungry"
    ELSE IF hp <= MIN_LEVEL THEN "sad"
    ELSE "none"

\* mutant of TickGuard: the loop does not look at alive
TickGuardNoAlive == i < hours

\* mutant of TickGuard: an hours argument below 1 counts as 1
TickGuardAtLeastOne == i < Max(1, hours) /\ alive

\* for _ in range(hours): if not self.alive: return
TickGuard == i < hours /\ alive

----------------------------------------------------------------------------
(* Pet.tick: the steps *)

\* the call: the argument is bound, the loop has not started
TickCall(n) ==
    /\ pc = "idle"
    /\ pc' = "tick"
    /\ hours' = n
    /\ i' = 0
    /\ age0' = age_hours
    /\ signal' = "none"
    /\ UNCHANGED <<hunger, happiness, age_hours, alive, raised, dr, pre>>

\* mutant of TickHunger: the hour is not counted
TickHungerNoAge(r1) ==
    /\ pc = "tick"
    /\ TickGuard
    /\ hunger' = BaseHunger(hunger, r1)
    /\ pc' = "happy"
    /\ UNCHANGED <<happiness, age_hours, alive, hours, i, age0, signal, raised, pre>>

\* head of the loop on a live pet: the hour is counted and hunger rises by r1
TickHunger(r1) ==
    /\ pc = "tick"
    /\ TickGuard
    /\ age_hours' = age_hours + 1
    /\ hunger' = BaseHunger(hunger, r1)
    /\ pc' = "happy"
    /\ UNCHANGED <<happiness, alive, hours, i, age0, signal, raised, pre>>

\* happiness falls by r2
TickHappiness(r2) ==
    /\ pc = "happy"
    /\ happiness' = BaseHappiness(happiness, r2)
    /\ pc' = "event"
    /\ UNCHANGED <<hunger, age_hours, alive, hours, i, age0, signal, raised, pre>>

\* the random event: none (ev = NoEvent) or RANDOM_EVENTS[ev]
TickEvent(ev) ==
    /\ pc = "event"
    /\ hunger' = EventHunger(hunger, ev)
    /\ happiness' = EventHappiness(happiness, ev)
    /\ pc' = "check"
    /\ UNCHANGED <<age_hours, alive, hours, i, age0, signal, raised, pre>>

\* the too-hungry penalty and the game-over checks; the call returns on game
\* over and when range(hours) is used up, else the loop goes to its next hour
TickCheck ==
    /\ pc = "check"
    /\ LET hp == HungryPenalty(hunger, happiness)
           over == GameOver(hunger, hp)
       IN  /\ happiness' = hp
           /\ signal' = over
           /\ alive' = IF over = "none" THEN alive ELSE FALSE
           /\ IF over # "none" \/ i + 1 >= hours
                THEN pc' = "idle" /\ hours' = 0 /\ i' = 0 /\ age0' = 0
                ELSE pc' = "tick" /\ i' = i + 1 /\ UNCHANGED <<hours, age0>>
    /\ UNCHANGED <<hunger, age_hours, raised, dr, pre>>

\* the call returns without running the body: range(hours) is empty, or the
\* pet is not alive at the head of the loop
TickReturn ==
    /\ pc = "tick"
    /\ ~TickGuard
    /\ pc' = "idle"
    /\ hours' = 0
    /\ i' = 0
    /\ age0' = 0
    /\ UNCHANGED <<hunger, happiness, age_hours, alive, signal, raised, dr, pre>>

----------------------------------------------------------------------------
(* Spec: any sequence of calls on one Pet *)

HoursArgs == (-1) .. MaxHours

Tick == \E n \in HoursArgs : age_hours + n <= MaxAge /\ TickCall(n)

DrawHunger ==
    \E r1 \in BASE_HUNGER_INCREASE[1] .. BASE_HUNGER_INCREASE[2] :
        TickHunger(r1) /\ UNCHANGED dr

DrawHappiness ==
    \E r2 \in BASE_HAPPINESS_DECREASE[1] .. BASE_HAPPINESS_DECREASE[2] :
        TickHappiness(r2) /\ UNCHANGED dr

DrawEvent ==
    \E ev \in {NoEvent} \cup (1 .. Len(RANDOM_EVENTS)) :
        TickEvent(ev) /\ UNCHANGED dr

Next ==
    \/ Feed /\ UNCHANGED mvars
    \/ Play /\ UNCHANGED mvars
    \/ GiveToy /\ UNCHANGED mvars
    \/ GiveMedicine /\ UNCHANGED mvars
    \/ Tick /\ UNCHANGED mvars
    \/ DrawHunger /\ UNCHANGED mvars
    \/ DrawHappiness /\ UNCHANGED mvars
    \/ DrawEvent /\ UNCHANGED mvars
    \/ TickCheck /\ UNCHANGED mvars
    \/ TickReturn /\ UNCHANGED mvars

Spec == Init /\ [][Next]_vars

----------------------------------------------------------------------------
(* SpecHour: one hour of tick(1) with its draws recorded, from every pet   *)
(* state of HourInputs; once the pet is game over, further tick calls.     *)

HungerInputs == {0, 50, 75, 80, 95, 100}
HappinessInputs == {0, 4, 5, 10, 50, 100}

HourInputs ==
    { p \in [hunger : MIN_LEVEL .. MAX_LEVEL, happiness : MIN_LEVEL .. MAX_LEVEL,
             alive : BOOLEAN] :
        p.hunger \in HungerInputs \/ p.happiness \in HappinessInputs }

InitHour ==
    /\ pre \in HourInputs
    /\ hunger = pre.hunger
    /\ happiness = pre.happiness
    /\ alive = pre.alive
    /\ age_hours = 0
    /\ pc = "tick"
    /\ hours = 1
    /\ i = 0
    /\ age0 = 0
    /\ signal = "none"
    /\ raised = "none"
    /\ dr = NoDraw
    /\ NoMenu

RecHunger ==
    \E r1 \in BASE_HUNGER_INCREASE[1] .. BASE_HUNGER_INCREASE[2] :
        TickHunger(r1) /\ dr' = [dr EXCEPT !.r1 = r1]

RecHappiness ==
    \E r2 \in BASE_HAPPINESS_DECREASE[1] .. BASE_HAPPINESS_DECREASE[2] :
        TickHappiness(r2) /\ dr' = [dr EXCEPT !.r2 = r2]

RecEvent ==
    \E ev \in {NoEvent} \cup (1 .. Len(RANDOM_EVENTS)) :
        TickEvent(ev) /\ dr' = [dr EXCEPT !.ev = ev]

TickAgain == \E n \in 1 .. MaxHours : ~alive /\ TickCall(n)

NextHour ==
    \/ RecHunger /\ UNCHANGED mvars
    \/ RecHappiness /\ UNCHANGED mvars
    \/ RecEvent /\ UNCHANGED mvars
    \/ TickCheck /\ UNCHANGED mvars
    \/ TickReturn /\ UNCHANGED mvars
    \/ TickAgain /\ UNCHANGED mvars

SpecHour == InitHour /\ [][NextHour]_vars

\* the recorded hour has run to its end
HourDone == pre.alive /\ pc = "idle"

----------------------------------------------------------------------------
(* Pet objects in a list. The variables hunger, happiness, age_hours and   *)
(* alive are the fields of the Pet a method is running on (self); pets     *)
(* holds the fields of every Pet of the manager.                           *)

\* Pet(name)
NewPet(name) ==
    [name |-> name, hunger |-> 50, happiness |-> 50, age_hours |-> 0,
     alive |-> TRUE]

\* mutant of Store: the fields are shared by every Pet (class attributes)
StoreShared ==
    pets' = [k \in 1 .. Len(pets) |->
                [name |-> pets[k].name, hunger |-> hunger',
                 happiness |-> happiness', age_hours |-> age_hours',
                 alive |-> alive']]

\* self.hunger = ..., self.happiness = ..., self.age_hours += 1,
\* self.alive = False: the writes of a method go to the Pet it runs on, which
\* is the active one
Store ==
    pets' = [pets EXCEPT ![active_index + 1] =
                [name |-> @.name, hunger |-> hunger', happiness |-> happiness',
                 age_hours |-> age_hours', alive |-> alive']]

\* pet = manager.get_active(): the fields of p become those of self
Bind(p) ==
    /\ hunger' = p.hunger
    /\ happiness' = p.happiness
    /\ age_hours' = p.age_hours
    /\ alive' = p.alive

----------------------------------------------------------------------------
(* SpecAction: one call of feed, play, give_toy or give_medicine on a Pet  *)
(* in any state; req.choice records the method called.                     *)

ActionInputs ==
    [hunger : MIN_LEVEL .. MAX_LEVEL, happiness : MIN_LEVEL .. MAX_LEVEL,
     alive : BOOLEAN]

InitAction ==
    /\ pre \in ActionInputs
    /\ hunger = pre.hunger
    /\ happiness = pre.happiness
    /\ alive = pre.alive
    /\ age_hours = 0
    /\ pc = "idle"
    /\ hours = 0
    /\ i = 0
    /\ age0 = 0
    /\ signal = "none"
    /\ raised = "none"
    /\ dr = NoDraw
    /\ pets = << [NewPet("Rex") EXCEPT !.hunger = pre.hunger,
                                       !.happiness = pre.happiness,
                                       !.alive = pre.alive] >>
    /\ active_index = 0
    /\ mpc = "none"
    /\ req = NoReq

\* the call of one method, recorded
Called(method) ==
    /\ req = NoReq
    /\ req' = [NoReq EXCEPT !.choice = method]
    /\ Store
    /\ UNCHANGED <<active_index, mpc>>

NextAction ==
    \/ Feed /\ Called("feed")
    \/ Play /\ Called("play")
    \/ GiveToy /\ Called("give_toy")
    \/ GiveMedicine /\ Called("give_medicine")

SpecAction == InitAction /\ [][NextAction]_vars

----------------------------------------------------------------------------
(* PetManager *)

MaxPets == 2           \* most pets created in one run

\* A name is typed as the sequence of its characters.
NameInputs == { <<>>, <<" ">>, <<" ", "T", " ">> }

RECURSIVE StripLeft(_)
StripLeft(t) ==
    IF t # <<>> /\ Head(t) = " " THEN StripLeft(Tail(t)) ELSE t

RECURSIVE StripRight(_)
StripRight(t) ==
    IF t # <<>> /\ t[Len(t)] = " " THEN StripRight(SubSeq(t, 1, Len(t) - 1))
    ELSE t

\* str.strip()
Strip(t) == StripRight(StripLeft(t))

\* the value of get_active() when there is no active pet
NoPet ==
    [name |-> <<>>, hunger |-> -1, happiness |-> -1, age_hours |-> 0,
     alive |-> FALSE]

\* PetManager.get_active
get_active(ps, ai) == IF ai = None \/ ps = <<>> THEN NoPet ELSE ps[ai + 1]

\* mutant of create_pet: the new pet is appended but not made active
create_pet_not_active(ps, ai, name) ==
    IF Strip(name) = <<>> THEN [pets |-> ps, active_index |-> ai]
    ELSE [pets |-> Append(ps, NewPet(Strip(name))), active_index |-> ai]

\* PetManager.create_pet, given the line typed as the name
create_pet(ps, ai, name) ==
    IF Strip(name) = <<>> THEN [pets |-> ps, active_index |-> ai]
    ELSE [pets |-> Append(ps, NewPet(Strip(name))),
          active_index |-> Len(ps) + 1 - 1]

\* PetManager.switch_active, given the line typed as the pet number (no line
\* is read when there are no pets)
switch_active(ps, ai, line) ==
    IF ps = <<>> THEN [pets |-> ps, active_index |-> ai]
    ELSE IF line.kind = "int" /\ 1 <= line.val /\ line.val <= Len(ps)
           THEN [pets |-> ps, active_index |-> line.val - 1]
           ELSE [pets |-> ps, active_index |-> ai]

\* the manager becomes m; the fields of self are those of its active pet
SetManager(m) ==
    /\ pets' = m.pets
    /\ active_index' = m.active_index
    /\ Bind(get_active(m.pets, m.active_index))

----------------------------------------------------------------------------
(* main: the menu loop *)

MenuTurns == 2         \* hours of simulated time, over all pets, in one run

RECURSIVE TotalAge(_)
TotalAge(ps) ==
    IF ps = <<>> THEN 0 ELSE Head(ps).age_hours + TotalAge(Tail(ps))

\* mutant of ParseHours: the number typed is taken as it is
ParseHoursNoClamp(line) ==
    IF line.kind = "empty" THEN 1
    ELSE IF line.kind = "text" THEN 1
    ELSE line.val

\* hours = int(hours) if hours else 1; hours = max(1, min(24, hours));
\* except ValueError: hours = 1
ParseHours(line) ==
    IF line.kind = "empty" THEN 1
    ELSE IF line.kind = "text" THEN 1
    ELSE Max(1, Min(24, line.val))

\* mutant of Gated: actions are not held back on a pet that is game over
GatedNever(c) == FALSE

\* if not pet.alive and choice in {"1", "2", "3", "4"}: continue
Gated(c) == ~alive /\ c \in {"1", "2", "3", "4"}

ActionChoices == {"1", "2", "3", "4"}
PetChoices == {"1", "2", "3", "4", "5", "6"}
OtherChoices == {"7", "8", "9", "x"}

InitMenu ==
    /\ hunger = NoPet.hunger
    /\ happiness = NoPet.happiness
    /\ age_hours = NoPet.age_hours
    /\ alive = NoPet.alive
    /\ pc = "idle"
    /\ hours = 0
    /\ i = 0
    /\ age0 = 0
    /\ signal = "none"
    /\ raised = "none"
    /\ dr = NoDraw
    /\ pre = NoPre
    /\ pets = <<>>
    /\ active_index = None
    /\ mpc = "start"
    /\ req = NoReq

\* manager.create_pet() before the loop
MenuStart ==
    \E name \in NameInputs :
        /\ mpc = "start"
        /\ Len(create_pet(pets, active_index, name).pets) <= MaxPets
        /\ SetManager(create_pet(pets, active_index, name))
        /\ mpc' = "menu"
        /\ UNCHANGED <<pc, hours, i, age0, signal, raised, dr, pre, req>>

\* an empty line at the prompt: continue
MenuEmpty == mpc = "menu" /\ UNCHANGED vars

\* "0": break
MenuQuit ==
    /\ mpc = "menu"
    /\ mpc' = "quit"
    /\ UNCHANGED <<pet, pc, hours, i, age0, signal, raised, dr, pre, pets,
                   active_index, req>>

\* mutant of HoursOf: an action is followed by two hours
HoursOfTwo(c, line) ==
    IF c \in ActionChoices THEN 2 ELSE IF c = "6" THEN ParseHours(line) ELSE 0

\* the hour count of a choice: one tick(1) for "1".."4", the clamped input
\* for "6", none for "5"
HoursOf(c, line) ==
    IF c \in ActionChoices THEN 1 ELSE IF c = "6" THEN ParseHours(line) ELSE 0

\* a choice "1".."6" gets to its handler with the active pet in hand
ToHandler(c, line, p) ==
    /\ mpc' = IF c \in ActionChoices THEN "act" ELSE "run"
    /\ req' = [choice |-> c, line |-> line, n |-> HoursOf(c, line),
               left |-> HoursOf(c, line),
               age |-> p.age_hours]

\* "1".."6" with an active pet: held back when the pet is game over and the
\* choice is an action
MenuChoosePet ==
    \E c \in PetChoices, line \in {EmptyLine, TextLine}
                                    \cup {IntLine(k) : k \in -1 .. MenuTurns + 1} :
        /\ mpc = "menu"
        /\ get_active(pets, active_index) # NoPet
        /\ c # "6" => line = EmptyLine
        /\ alive => TotalAge(pets) + HoursOf(c, line) <= MenuTurns
        /\ IF Gated(c)
             THEN UNCHANGED <<mpc, req>>
             ELSE ToHandler(c, line, get_active(pets, active_index))
        /\ UNCHANGED <<pet, pc, hours, i, age0, signal, raised, dr, pre, pets,
                       active_index>>

\* "1".."6" without an active pet: ensure_active_pet asks for a name; the
\* loop continues when there is still no pet
MenuChooseNoPet ==
    \E c \in PetChoices, name \in NameInputs,
       line \in {EmptyLine, TextLine} \cup {IntLine(k) : k \in -1 .. MenuTurns + 1} :
        /\ mpc = "menu"
        /\ get_active(pets, active_index) = NoPet
        /\ c # "6" => line = EmptyLine
        /\ HoursOf(c, line) <= MenuTurns
        /\ Len(create_pet(pets, active_index, name).pets) <= MaxPets
        /\ SetManager(create_pet(pets, active_index, name))
        /\ IF get_active(pets', active_index') = NoPet
             THEN UNCHANGED <<mpc, req>>
             ELSE ToHandler(c, line, get_active(pets', active_index'))
        /\ UNCHANGED <<pc, hours, i, age0, signal, raised, dr, pre>>

\* "7", "8", "9" and anything else go to their branch
MenuChooseOther ==
    \E c \in OtherChoices :
        /\ mpc = "menu"
        /\ mpc' = "run"
        /\ req' = [NoReq EXCEPT !.choice = c]
        /\ UNCHANGED <<pet, pc, hours, i, age0, signal, raised, dr, pre, pets,
                       active_index>>

\* pet.feed() / pet.play() / pet.give_toy() / pet.give_medicine()
MenuAct ==
    /\ mpc = "act"
    /\ \/ req.choice = "1" /\ Feed
       \/ req.choice = "2" /\ Play
       \/ req.choice = "3" /\ GiveToy
       \/ req.choice = "4" /\ GiveMedicine
    /\ Store
    /\ mpc' = "run"
    /\ UNCHANGED <<active_index, req>>

\* mutant of MenuTick: the hour is counted but tick is not called
MenuTickSkipped ==
    /\ mpc = "run"
    /\ req.choice \in PetChoices
    /\ req.left > 0
    /\ pc = "idle"
    /\ req' = [req EXCEPT !.left = @ - 1]
    /\ UNCHANGED <<pet, pc, hours, i, age0, signal, raised, dr, pre, pets,
                   active_index, mpc>>

\* pet.tick(1): after the action, or once per hour of "advance time"
MenuTick ==
    /\ mpc = "run"
    /\ req.choice \in PetChoices
    /\ req.left > 0
    /\ TickCall(1)
    /\ req' = [req EXCEPT !.left = @ - 1]
    /\ UNCHANGED <<pets, active_index, mpc>>

\* the draws of random.randint in the menu loop: the ends of each range
MenuHungerDraws == {BASE_HUNGER_INCREASE[1], BASE_HUNGER_INCREASE[2]}
MenuHappinessDraws == {BASE_HAPPINESS_DECREASE[1], BASE_HAPPINESS_DECREASE[2]}

\* a step of the tick call in progress, on the active pet
MenuTickStep ==
    /\ mpc = "run"
    /\ \/ \E r1 \in MenuHungerDraws : TickHunger(r1) /\ UNCHANGED dr
       \/ \E r2 \in MenuHappinessDraws : TickHappiness(r2) /\ UNCHANGED dr
       \/ DrawEvent
       \/ TickCheck
       \/ TickReturn
    /\ Store
    /\ UNCHANGED <<active_index, mpc, req>>

\* the handler of "1".."6" is through (for "5", status_string was printed)
MenuDone ==
    /\ mpc = "run"
    /\ req.choice \in PetChoices
    /\ req.left = 0
    /\ pc = "idle"
    /\ mpc' = "menu"
    /\ req' = NoReq
    /\ UNCHANGED <<pet, pc, hours, i, age0, signal, raised, dr, pre, pets,
                   active_index>>

\* "7": manager.create_pet()
MenuCreate ==
    \E name \in NameInputs :
        /\ mpc = "run"
        /\ req.choice = "7"
        /\ Len(create_pet(pets, active_index, name).pets) <= MaxPets
        /\ SetManager(create_pet(pets, active_index, name))
        /\ mpc' = "menu"
        /\ req' = NoReq
        /\ UNCHANGED <<pc, hours, i, age0, signal, raised, dr, pre>>

\* the lines that switch_active reads in the menu loop
SwitchInputs == {EmptyLine, TextLine} \cup {IntLine(k) : k \in -1 .. MaxPets + 1}

\* "8": manager.switch_active()
MenuSwitch ==
    \E line \in SwitchInputs :
        /\ mpc = "run"
        /\ req.choice = "8"
        /\ SetManager(switch_active(pets, active_index, line))
        /\ mpc' = "menu"
        /\ req' = NoReq
        /\ UNCHANGED <<pc, hours, i, age0, signal, raised, dr, pre>>

\* "9": manager.list_pets(); anything else: "Invalid option"
MenuPrint ==
    /\ mpc = "run"
    /\ req.choice \in {"9", "x"}
    /\ mpc' = "menu"
    /\ req' = NoReq
    /\ UNCHANGED <<pet, pc, hours, i, age0, signal, raised, dr, pre, pets,
                   active_index>>

NextMenu ==
    \/ MenuStart
    \/ MenuEmpty
    \/ MenuQuit
    \/ MenuChoosePet
    \/ MenuChooseNoPet
    \/ MenuChooseOther
    \/ MenuAct
    \/ MenuTick
    \/ MenuTickStep
    \/ MenuDone
    \/ MenuCreate
    \/ MenuSwitch
    \/ MenuPrint

SpecMenu == InitMenu /\ [][NextMenu]_vars

\* main is at the prompt, between two choices
AtPrompt == mpc = "menu"

----------------------------------------------------------------------------
(* SpecAdvance: the "advance time" choice of the menu loop, on one pet, with *)
(* hour counts up to and beyond the 24 of main.                              *)

AdvanceInputs ==
    {EmptyLine, TextLine} \cup {IntLine(k) : k \in {-3, 0, 1, 2, 25}}

\* the pet at the first prompt: as created, or game over
AdvancePets ==
    { NewPet(<<"T">>),
      [NewPet(<<"T">>) EXCEPT !.hunger = 100, !.alive = FALSE] }

InitAdvance ==
    /\ pets \in { <<p>> : p \in AdvancePets }
    /\ active_index = 0
    /\ hunger = pets[1].hunger
    /\ happiness = pets[1].happiness
    /\ age_hours = pets[1].age_hours
    /\ alive = pets[1].alive
    /\ pc = "idle"
    /\ hours = 0
    /\ i = 0
    /\ age0 = 0
    /\ signal = "none"
    /\ raised = "none"
    /\ dr = NoDraw
    /\ pre = NoPre
    /\ mpc = "menu"
    /\ req = NoReq

\* choice "6" and the line typed as the hour count, on a pet of age 0; pre
\* keeps the pet as it was when the choice was read
AdvanceChoose ==
    \E line \in AdvanceInputs :
        /\ mpc = "menu"
        /\ get_active(pets, active_index) # NoPet
        /\ age_hours = 0
        /\ ToHandler("6", line, get_active(pets, active_index))
        /\ pre' = [hunger |-> hunger, happiness |-> happiness, alive |-> alive]
        /\ UNCHANGED <<pet, pc, hours, i, age0, signal, raised, dr, pets,
                       active_index>>

NextAdvance ==
    \/ AdvanceChoose
    \/ MenuTick
    \/ MenuTickStep
    \/ MenuDone

SpecAdvance == InitAdvance /\ [][NextAdvance]_vars

----------------------------------------------------------------------------
(* SpecDecay: tick(1) called hour after hour on a live pet. The run starts  *)
(* from any hunger and happiness; dr.ev keeps the last event that was       *)
(* triggered in the run. Runs of the new pet (50/50) are told apart by pre, *)
(* and events are triggered in their first EventHours hours only.           *)

DecayHours == 36       \* most hours of a run
EventHours == 2        \* hours of a run in which events are triggered

InitDecay ==
    /\ hunger \in MIN_LEVEL .. MAX_LEVEL
    /\ happiness \in MIN_LEVEL .. MAX_LEVEL
    /\ alive = TRUE
    /\ age_hours = 0
    /\ pre \in {NoPre, [hunger |-> 50, happiness |-> 50, alive |-> TRUE]}
    /\ pre # NoPre => hunger = pre.hunger /\ happiness = pre.happiness
    /\ pc = "idle"
    /\ hours = 0
    /\ i = 0
    /\ age0 = 0
    /\ signal = "none"
    /\ raised = "none"
    /\ dr = NoDraw
    /\ NoMenu

DecayTick ==
    /\ alive
    /\ age_hours < DecayHours
    /\ dr.ev # NoEvent => age_hours < EventHours
    /\ TickCall(1)

DecayNoEvent == TickEvent(NoEvent) /\ UNCHANGED dr

DecayEvent ==
    \E ev \in 1 .. Len(RANDOM_EVENTS) :
        /\ pre # NoPre
        /\ age_hours <= EventHours
        /\ TickEvent(ev)
        /\ dr' = [dr EXCEPT !.ev = ev]

NextDecay ==
    \/ DecayTick /\ UNCHANGED mvars
    \/ DrawHunger /\ UNCHANGED mvars
    \/ DrawHappiness /\ UNCHANGED mvars
    \/ DecayNoEvent /\ UNCHANGED mvars
    \/ DecayEvent /\ UNCHANGED mvars
    \/ TickCheck /\ UNCHANGED mvars

SpecDecay == InitDecay /\ [][NextDecay]_vars

----------------------------------------------------------------------------
(* Properties of Spec *)

\* C1: after every operation (and after every statement of tick), hunger is
\* in 0..100 and happiness is in 0..100.
C1_LevelsInRange ==
    /\ hunger \in 0 .. 100
    /\ happiness \in 0 .. 100

\* C1 witness: both clamps have acted, hunger held at 0 and happiness at 100.
C1_Witness == hunger = 0 /\ happiness = 100

C3_GameOverAbsorbing == [][~alive => ~alive']_vars

\* C3 witness: a pet that is game over and has since been given an action
\* that moved it off both terminal levels.
C3_Witness == ~alive /\ pc = "idle" /\ hunger < 100 /\ happiness > 0

\* C4: alive turns false only in the game-over check that ends a tick hour,
\* and only with hunger = 100 or happiness = 0; at the end of every hour
\* alive is false iff hunger = 100 or happiness = 0, the signal is "hungry"
\* (starved) when hunger = 100, otherwise "sad", and the call returns at
\* once; the four gameplay actions never change alive.
C4_GameOverOnlyInTick ==
    [][ /\ (alive /\ ~alive') =>
              (pc = "check" /\ (hunger' = 100 \/ happiness' = 0))
        /\ pc = "check" =>
              /\ ~alive' <=> (hunger' = 100 \/ happiness' = 0)
              /\ signal' = IF hunger' = 100 THEN "hungry"
                           ELSE IF happiness' = 0 THEN "sad" ELSE "none"
              /\ ~alive' => pc' = "idle"
        /\ (pc = "idle" /\ pc' = "idle") => alive' = alive
    ]_vars

\* C4 witness: a gameplay action has driven a live pet to hunger 100 and
\* the pet is still alive.
C4_Witness == alive /\ pc = "idle" /\ hunger = 100

\* C5: age_hours never decreases and rises by exactly 1 per processed hour;
\* when a tick(n) call returns, age_hours has advanced by the number of hours
\* processed, which is n if the pet is still alive and the hour of the
\* game over (at most n) otherwise, and 0 if the pet was dead at the call.
C5_AgeAdvance ==
    [][ /\ age_hours' = IF pc = "tick" /\ pc' = "happy"
                          THEN age_hours + 1 ELSE age_hours
        /\ (pc = "check" /\ pc' = "idle") =>
              /\ age_hours' = age0 + i + 1
              /\ i + 1 <= hours
              /\ alive' => i + 1 = hours
        /\ (pc = "check" /\ pc' = "tick") => (alive' /\ i + 1 < hours)
        /\ (pc = "tick" /\ pc' = "idle") =>
              /\ age_hours' = age0
              /\ hours < 1 \/ ~alive
    ]_vars

\* C5 witness: the game-over check of an hour is about to end a call that
\* still had hours to go.
C5_Witness ==
    /\ pc = "check"
    /\ i + 1 < hours
    /\ hunger = 100
    /\ age_hours = age0 + i + 1

\* C6 as stated: tick called with hours < 1 fails with InvalidArgument and
\* leaves hunger, happiness, age_hours and alive unchanged.
C6_Original ==
    [][(pc = "tick" /\ hours < 1) =>
          (raised' = "InvalidArgument" /\ UNCHANGED pet)]_vars

\* C6 amended: tick called with hours < 1 returns silently, without running
\* the loop body and without an error, and leaves hunger, happiness,
\* age_hours and alive unchanged.
C6_NonPositiveHours ==
    [][(pc = "tick" /\ hours < 1) =>
          /\ pc' = "idle"
          /\ raised' = "none"
          /\ signal' = "none"
          /\ UNCHANGED pet]_vars

\* C6 witness: tick has been called on a live pet with hours < 1.
C6_Witness == pc = "tick" /\ hours < 1 /\ alive

\* C10: in every hour, if hunger is above 80 after the base adjustments and
\* the event, happiness falls by a further 5 (not below 0) before the
\* game-over check of the same hour, so that the penalty alone can end the
\* game as "sad"; if hunger is 80 or less, happiness is left as it is.
C10_HungryPenalty ==
    [][pc = "check" =>
          /\ hunger' = hunger
          /\ happiness' = IF hunger > 80 THEN Max(0, happiness - 5)
                          ELSE happiness
          /\ (hunger < 100 /\ happiness' = 0) => (~alive' /\ signal' = "sad")
    ]_vars

\* C10 witness: an hour reaches its check with hunger above 80 and a
\* happiness that only the penalty brings to 0.
C10_Witness ==
    /\ pc = "check"
    /\ hunger > 80 /\ hunger < 100
    /\ happiness \in 1 .. 5

----------------------------------------------------------------------------
(* Properties of SpecHour *)

\* The hour as a function of the start state and the draws, written out step
\* by step: base rise, event delta, each clamped (used by C7).
C7_Hunger(h, d) ==
    LET b == Min(100, h + d.r1)
    IN  CASE d.ev = 0 -> b
          [] d.ev = 1 -> Max(0, b - 10)
          [] d.ev = 2 -> b
          [] d.ev = 3 -> Min(100, b + 15)
          [] d.ev = 4 -> Max(0, b - 5)

\* Base fall, event delta, then the penalty of 5 when hunger ends above 80
\* (used by C7).
C7_Happiness(h, hp, d) ==
    LET b == Max(0, hp - d.r2)
        e == CASE d.ev = 0 -> b
               [] d.ev = 1 -> b
               [] d.ev = 2 -> Min(100, b + 10)
               [] d.ev = 3 -> Max(0, b - 10)
               [] d.ev = 4 -> Min(100, b + 5)
    IN  IF C7_Hunger(h, d) > 80 THEN Max(0, e - 5) ELSE e

\* C7: one hour is a function of the pet state and the draws (r1, r2, event
\* or none): the state it ends in is the one the steps of the hour compute
\* from them, with age_hours one higher and alive iff hunger < 100 and
\* happiness > 0. From hunger 50 and happiness 50 with r1 = 5, r2 = 3 and no
\* event the hour ends with hunger 55, happiness 47, alive.
C7_HourFromDraws ==
    /\ HourDone =>
          /\ hunger = C7_Hunger(pre.hunger, dr)
          /\ happiness = C7_Happiness(pre.hunger, pre.happiness, dr)
          /\ alive <=> (hunger < 100 /\ happiness > 0)
          /\ age_hours = 1
    /\ (HourDone /\ pre.hunger = 50 /\ pre.happiness = 50
            /\ dr = [r1 |-> 5, r2 |-> 3, ev |-> NoEvent]) =>
          (hunger = 55 /\ happiness = 47 /\ alive /\ age_hours = 1)

\* C7 witness: the hour from 50/50 with r1 = 5, r2 = 3 and no event has run.
C7_Witness ==
    /\ HourDone
    /\ pre.hunger = 50 /\ pre.happiness = 50
    /\ dr = [r1 |-> 5, r2 |-> 3, ev |-> NoEvent]

\* C8: from a live pet with hunger 95 and any happiness, an hour with
\* r1 >= 5 and no event ends with hunger 100 and alive false, and the pet
\* stays exactly as that hour left it through every later tick call.
C8_TerminalByHunger ==
    (pre.alive /\ pre.hunger = 95 /\ dr.r1 >= 5 /\ dr.ev = NoEvent
        /\ pc \in {"idle", "tick"}) =>
      /\ hunger = 100
      /\ ~alive
      /\ age_hours = 1
      /\ happiness = Max(0, Max(0, pre.happiness - dr.r2) - 5)

\* C8 witness: after such an hour, a later tick call is in progress.
C8_Witness ==
    /\ pre.alive /\ pre.hunger = 95 /\ dr.r1 >= 5 /\ dr.ev = NoEvent
    /\ pc = "tick" /\ hours >= 1
    /\ ~alive

\* C9: from a live pet with happiness 4 and any hunger, an hour with
\* r2 >= 4 and no event ends with happiness 0 and alive false.
C9_TerminalByHappiness ==
    (HourDone /\ pre.happiness = 4 /\ dr.r2 >= 4 /\ dr.ev = NoEvent) =>
      (happiness = 0 /\ ~alive)

\* C9 witness: such an hour has ended the game as "sad".
C9_Witness ==
    /\ HourDone /\ pre.happiness = 4 /\ dr.r2 >= 4 /\ dr.ev = NoEvent
    /\ ~alive /\ signal = "sad"

\* C15: in an hour of tick the event comes after the base changes and before
\* the too-hungry penalty and the game-over checks, each sum clamped: when
\* the checks are reached hunger is clamp(clamp(hunger + r1) + hunger_delta),
\* happiness has not had the penalty yet and the pet is still alive; so an
\* hour whose base rise takes hunger to 100 and which draws "Found a snack"
\* or "Took a nap" ends with hunger 90 or 95 and not with "too hungry".
C15_EventBeforeChecks ==
    /\ (pre.alive /\ pc = "check") =>
          /\ hunger =
                IF dr.ev = NoEvent THEN Min(100, pre.hunger + dr.r1)
                ELSE Max(0, Min(100, Min(100, pre.hunger + dr.r1)
                                       + RANDOM_EVENTS[dr.ev].hunger_delta))
          /\ happiness =
                IF dr.ev = NoEvent THEN Max(0, pre.happiness - dr.r2)
                ELSE Max(0, Min(100, Max(0, pre.happiness - dr.r2)
                                       + RANDOM_EVENTS[dr.ev].happiness_delta))
          /\ alive
    /\ (/\ HourDone
        /\ pre.hunger + dr.r1 >= 100
        /\ dr.ev # NoEvent
        /\ RANDOM_EVENTS[dr.ev].name \in {"Found a snack", "Took a nap"}) =>
          /\ hunger = IF RANDOM_EVENTS[dr.ev].name = "Found a snack" THEN 90
                      ELSE 95
          /\ signal # "hungry"
          /\ alive <=> happiness > 0

\* C15 witness: from hunger 95 the base rise reached 100, a snack was found
\* and the hour ended with hunger 90 and the pet alive.
C15_Witness ==
    /\ HourDone
    /\ pre.hunger = 95
    /\ dr.r1 >= 5
    /\ dr.ev # NoEvent
    /\ RANDOM_EVENTS[dr.ev].name = "Found a snack"
    /\ hunger = 90
    /\ alive

----------------------------------------------------------------------------
(* Properties of SpecAction *)

\* C11: feed() sets hunger to max(0, hunger - 15) and happiness to
\* max(0, happiness - 2) for every hunger and happiness in 0..100; on
\* hunger 10 it gives hunger 0.
C11_Feed ==
    req.choice = "feed" =>
      /\ hunger = Max(0, pre.hunger - 15)
      /\ happiness = Max(0, pre.happiness - 2)
      /\ pre.hunger = 10 => hunger = 0

\* C11 witness: feed() has run on hunger 10, happiness 50.
C11_Witness ==
    /\ req.choice = "feed"
    /\ pre.hunger = 10 /\ pre.happiness = 50
    /\ hunger = 0 /\ happiness = 48

\* C12: play gives happiness + 12 and hunger + 6, give_toy happiness + 8 and
\* hunger + 2, give_medicine hunger - 8 and happiness + 3, each clamped to
\* 0..100, for every hunger and happiness in 0..100; none of the three
\* changes age_hours, alive or name.
C12_OtherActions ==
    /\ req.choice = "play" =>
          /\ happiness = Min(100, pre.happiness + 12)
          /\ hunger = Min(100, pre.hunger + 6)
    /\ req.choice = "give_toy" =>
          /\ happiness = Min(100, pre.happiness + 8)
          /\ hunger = Min(100, pre.hunger + 2)
    /\ req.choice = "give_medicine" =>
          /\ hunger = Max(0, pre.hunger - 8)
          /\ happiness = Min(100, pre.happiness + 3)
    /\ req.choice \in {"play", "give_toy", "give_medicine"} =>
          /\ age_hours = 0
          /\ alive = pre.alive
          /\ pets[1] = [name |-> "Rex", hunger |-> hunger,
                        happiness |-> happiness, age_hours |-> 0,
                        alive |-> pre.alive]

\* C12 witness: give_medicine has run where both of its clamps act.
C12_Witness ==
    /\ req.choice = "give_medicine"
    /\ pre.hunger = 5 /\ pre.happiness = 99
    /\ hunger = 0 /\ happiness = 100

----------------------------------------------------------------------------
(* Properties of SpecMenu *)

\* C13: the menu loop starts an action "1".."4" only on a pet that is alive,
\* and no step of the loop, whatever is typed, changes any field of a pet
\* that is game over.
C13_DeadPetUntouched ==
    [][ /\ mpc' = "act" => alive'
        /\ \A k \in 1 .. Len(pets) :
              ~pets[k].alive => k <= Len(pets') /\ pets'[k] = pets[k] ]_vars

\* a pet that is game over is back at the prompt after a further choice
\* ("advance time") was handled on it
C13_Witness ==
    /\ AtPrompt
    /\ get_active(pets, active_index) # NoPet
    /\ ~alive
    /\ signal = "none"

\* C14: pets share no state: a step of the menu loop changes the hunger,
\* happiness, age_hours and alive of no pet other than the active one; in
\* particular the game over of one pet leaves the alive of the others alone.
C14_OtherPetsUnchanged ==
    [][ \A k \in 1 .. Len(pets) :
          k # active_index + 1 =>
              /\ k <= Len(pets')
              /\ pets'[k].hunger = pets[k].hunger
              /\ pets'[k].happiness = pets[k].happiness
              /\ pets'[k].age_hours = pets[k].age_hours
              /\ pets'[k].alive = pets[k].alive ]_vars

\* two pets, of which the one that was played with is game over and the other
\* is as it was created
C14_Witness ==
    /\ Len(pets) = 2
    /\ \E j, k \in 1 .. Len(pets) :
          /\ ~pets[j].alive
          /\ pets[j].age_hours = 2
          /\ pets[k] = NewPet(pets[k].name)

\* C16: whenever main is at the prompt, every pet of the manager is alive
\* exactly when its hunger is below 100 and its happiness above 0.
C16_AliveIffInRange ==
    AtPrompt =>
        \A k \in 1 .. Len(pets) :
            pets[k].alive <=> (pets[k].hunger < MAX_LEVEL
                               /\ pets[k].happiness > MIN_LEVEL)

\* at the prompt with a pet that is game over and a pet that is alive
C16_Witness ==
    /\ AtPrompt
    /\ \E j, k \in 1 .. Len(pets) : ~pets[j].alive /\ pets[k].alive

\* C17: a choice "1".."4" on a live pet is the action and then one hour of
\* tick: when its handler is through, age_hours is one more than when the
\* choice was made; choice "5" changes no field of any pet (with no active
\* pet it asks for a new one first, which changes none of the others).
C17_ActionThenOneHour ==
    [][ /\ (mpc' = "act" => age_hours' = req'.age /\ req'.left = 1)
        /\ (/\ req'.choice \in ActionChoices
            /\ mpc' = "run"
            /\ req'.left = 0
            /\ pc' = "idle") => age_hours' = req'.age + 1
        /\ (req.choice = "5" \/ req'.choice = "5") =>
              /\ \A k \in 1 .. Len(pets) :
                    k <= Len(pets') /\ pets'[k] = pets[k]
              /\ get_active(pets, active_index) # NoPet =>
                    pets' = pets /\ pet' = pet ]_vars

\* the handler of an action is through and the pet went game over in the
\* hour that followed the action
C17_Witness ==
    /\ req.choice \in ActionChoices
    /\ mpc = "run"
    /\ req.left = 0
    /\ pc = "idle"
    /\ ~alive
    /\ signal # "none"

\* active_index is None exactly when there are no pets, else an index of pets
C20_IndexInRange(ps, ai) ==
    /\ ai = None <=> ps = <<>>
    /\ ps # <<>> => 0 <= ai /\ ai < Len(ps)

\* C20: in every state of the menu loop active_index is None exactly when
\* the list is empty and else 0 <= active_index < len(pets); a step never
\* removes or reorders pets; create_pet with a name that is not blank
\* appends a pet of that name and makes it active; create_pet with an empty
\* or blank name, and switch_active with a line that is no number of a pet,
\* leave the list and active_index as they are.
C20_ManagerInvariant ==
    [][ /\ C20_IndexInRange(pets', active_index')
        /\ Len(pets) <= Len(pets')
        /\ \A k \in 1 .. Len(pets) : pets'[k].name = pets[k].name
        /\ Len(pets') > Len(pets) =>
              /\ Len(pets') = Len(pets) + 1
              /\ active_index' = Len(pets') - 1
        /\ \A name \in NameInputs :
              LET m == create_pet(pets', active_index', name)
              IN  IF \A j \in 1 .. Len(name) : name[j] = " "
                    THEN m.pets = pets' /\ m.active_index = active_index'
                    ELSE /\ Len(m.pets) = Len(pets') + 1
                         /\ SubSeq(m.pets, 1, Len(pets')) = pets'
                         /\ m.pets[Len(m.pets)].name # <<>>
                         /\ m.pets[Len(m.pets)].alive
                         /\ m.active_index = Len(m.pets) - 1
        /\ \A line \in SwitchInputs :
              LET m == switch_active(pets', active_index', line)
              IN  /\ m.pets = pets'
                  /\ IF /\ line.kind = "int"
                        /\ line.val \in 1 .. Len(pets')
                       THEN m.active_index = line.val - 1
                       ELSE m.active_index = active_index' ]_vars

\* two pets were created and the first was made active again
C20_Witness ==
    /\ AtPrompt
    /\ Len(pets) = 2
    /\ active_index = 0

----------------------------------------------------------------------------
(* Properties of SpecAdvance *)

\* C18: "advance time" takes an empty line, a line that is no number and a
\* number below 1 as 1 hour, a number above 24 as 24 hours and any other
\* number as it is, and makes that many tick(1) calls, never a tick call with
\* hours < 1; when the handler is through, a pet that was alive at the choice
\* is older by at least 1 and at most that many hours (by exactly that many
\* when it is still alive) and a pet that was game over is no older.
C18_AdvanceClamped ==
    req.choice = "6" =>
        /\ req.n = CASE req.line.kind = "empty" -> 1
                     [] req.line.kind = "text" -> 1
                     [] req.line.kind = "int" /\ req.line.val < 1 -> 1
                     [] req.line.kind = "int" /\ req.line.val > 24 -> 24
                     [] OTHER -> req.line.val
        /\ req.n \in 1 .. 24
        /\ req.left \in 0 .. req.n
        /\ pc # "idle" => hours >= 1
        /\ (mpc = "run" /\ req.left = 0 /\ pc = "idle") =>
              IF pre.alive
                THEN /\ age_hours - req.age \in 1 .. req.n
                     /\ alive => age_hours - req.age = req.n
                ELSE age_hours = req.age

\* 25 hours were asked for and the pet is alive after the 24 that were run
C18_Witness ==
    /\ req.choice = "6"
    /\ req.line = IntLine(25)
    /\ mpc = "run"
    /\ req.left = 0
    /\ pc = "idle"
    /\ alive
    /\ age_hours = 24

----------------------------------------------------------------------------
(* Properties of SpecDecay *)

\* C19: in a run of tick hours without a triggered event, from any hunger
\* and happiness of 0..100 and whatever the draws, the pet is game over after
\* at most 34 hours, and after at most 17 hours when it started as the new
\* pet 50/50; with events a pet can stay alive for ever: there are draws and
\* an event with which an hour of tick takes the live pet 50/50 back to 50/50.
C19_BoundedLifetime ==
    /\ (dr.ev = NoEvent /\ alive) => age_hours < 34
    /\ (dr.ev = NoEvent /\ alive /\ pre # NoPre) => age_hours < 17
    /\ (pre # NoPre /\ age_hours = 0) =>
          \E r1 \in BASE_HUNGER_INCREASE[1] .. BASE_HUNGER_INCREASE[2],
             r2 \in BASE_HAPPINESS_DECREASE[1] .. BASE_HAPPINESS_DECREASE[2],
             ev \in 1 .. Len(RANDOM_EVENTS) :
             LET h == EventHunger(BaseHunger(hunger, r1), ev)
                 hp == HungryPenalty(h, EventHappiness(
                                            BaseHappiness(happiness, r2), ev))
             IN  h = hunger /\ hp = happiness /\ GameOver(h, hp) = "none"

\* C19 witness: a pet that saw no event went game over in its 33rd hour
C19_Witness ==
    /\ dr.ev = NoEvent
    /\ pc = "idle"
    /\ ~alive
    /\ age_hours = 33

\* the new pet is alive after an hour with an event, at the levels 50/50 it
\* started from
C19_LevelsRecur ==
    /\ pre # NoPre
    /\ dr.ev # NoEvent
    /\ pc = "idle"
    /\ age_hours = 1
    /\ alive
    /\ hunger = pre.hunger
    /\ happiness = pre.happiness

====
